---- MODULE Spec2Model ----
(***************************************************************************)
(* TalonCRM server: the User / Organization store behind the Prisma        *)
(* client, AuthService (register, login), OrganizationsService (create,    *)
(* update, delete) and the JwtStrategy / JwtAuthGuard pair that protects   *)
(* the contacts routes.  In Spec, SpecAuth and SpecGuard every service     *)
(* method is one action: it runs to completion before the next request     *)
(* starts.  In SpecInterleaved two requests are in flight and every await  *)
(* on the Prisma client is one step.                                       *)
(***************************************************************************)
EXTENDS Integers, Sequences, FiniteSets, TLC

VARIABLES
    users,          \* rows of the User table
    organizations,  \* rows of the Organization table
    userSeq,        \* number of user ids generated so far
    orgSeq,         \* number of organization ids generated so far
    req,            \* the request handled last
    res,            \* its outcome: the value returned or the exception thrown
    registered,     \* history: email |-> password of each successful register
    calls           \* the requests in flight: position and locals of each

vars == <<users, organizations, userSeq, orgSeq, req, res, registered, calls>>
store == <<users, organizations, userSeq, orgSeq>>

---------------------------------------------------------------------------
(* Bounds of the model *)

\* organization ids the database generates in one run; users are bounded by
\* Emails, since no two users share an email and no user is ever deleted
MaxOrgs == 2

---------------------------------------------------------------------------
(* Values *)

\* an optional string field that the request body leaves out
Undefined == "<undefined>"

\* null result of findUnique / findFirst, and absent route metadata
Null == [isNull |-> TRUE]

\* faulty variant: only undefined counts as missing
TruthyDefined(v) == v # Undefined

\* JavaScript truthiness of a value of type string | undefined, as used by
\* if (organizationId), else if (organizationName), if (createdByUserId)
\* and updateData.name && ...
Truthy(v) == v # Undefined /\ v # ""

\* ids are generated by the database and never reused
OrgId(n) == "org_" \o ToString(n)
UserId(n) == "usr_" \o ToString(n)

Emails == {"ann@acme.io", "bob@beta.io"}

\* the ids a request can name: every id the database can generate and one
\* more, which never names a row
AllOrgIds == {OrgId(n) : n \in 1..(MaxOrgs + 1)}
AllUserIds == {UserId(n) : n \in 1..(Cardinality(Emails) + 1)}
Names == {"", "Acme", "Beta"}

DefaultRole == "USER"
AdminRole == "ADMIN"

---------------------------------------------------------------------------
(* bcryptjs *)

saltRounds == 12

\* bcrypt feeds at most this many bytes of the password to the key schedule
BcryptMaxBytes == 72

Salts == {"saltA", "saltB"}

\* a password of len bytes: len - 1 filler bytes followed by the byte last
Pw(len, last) == [i \in 1..len |-> IF i = len THEN last ELSE 7]

ShortPasswords == {Pw(1, 1), Pw(1, 2)}
LongPasswords == {Pw(BcryptMaxBytes + 1, 1), Pw(BcryptMaxBytes + 1, 2)}
Passwords == ShortPasswords \cup LongPasswords

BcryptKey(password) ==
    IF Len(password) > BcryptMaxBytes
    THEN SubSeq(password, 1, BcryptMaxBytes)
    ELSE password

\* bcrypt.hash(password, saltRounds) with the salt it generated
BcryptHash(password, salt) ==
    [rounds |-> saltRounds, salt |-> salt, key |-> BcryptKey(password)]

\* bcrypt.compare(password, hash): hash again with the salt stored in hash
BcryptCompare(password, hash) ==
    [rounds |-> hash.rounds, salt |-> hash.salt, key |-> BcryptKey(password)] = hash

---------------------------------------------------------------------------
(* Prisma queries *)

\* faulty variant: the lookup by email finds nobody
FindUserByEmailNobody(email) == Null

FindUserByEmail(email) ==
    IF \E u \in users : u.email = email
    THEN CHOOSE u \in users : u.email = email
    ELSE Null

\* faulty variant: the lookup by id answers for any id
FindUserByIdAny(id) == [id |-> id]

FindUserById(id) ==
    IF \E u \in users : u.id = id
    THEN CHOOSE u \in users : u.id = id
    ELSE Null

\* faulty variant: the lookup by id answers for any id
FindOrgByIdAny(id) == [id |-> id, name |-> ""]

FindOrgById(id) ==
    IF \E o \in organizations : o.id = id
    THEN CHOOSE o \in organizations : o.id = id
    ELSE Null

\* faulty variant: the lookup by name finds nothing
FindFirstOrgByNameNothing(name) == Null

\* organization.findFirst({ where: { name } })
FindFirstOrgByName(name) ==
    IF \E o \in organizations : o.name = name
    THEN CHOOSE o \in organizations : o.name = name
    ELSE Null

\* organization.findFirst({ where: { name, id: { not: id } } })
FindFirstOrgByNameNotId(name, id) ==
    IF \E o \in organizations : o.name = name /\ o.id # id
    THEN CHOOSE o \in organizations : o.name = name /\ o.id # id
    ELSE Null

\* user.count({ where: { organizationId } })
CountUsers(organizationId) ==
    Cardinality({u \in users : u.organizationId = organizationId})

\* the select: { id, email, name, role, organizationId, ... } projection
SelectUser(u) ==
    [id |-> u.id, email |-> u.email, role |-> u.role,
     organizationId |-> u.organizationId]

---------------------------------------------------------------------------
(* Outcomes *)

Throw(exception, message) ==
    /\ res' = [error |-> exception, message |-> message]
    /\ UNCHANGED <<store, registered>>

\* JwtPayload and the user object of AuthResponse
AuthResponse(user) ==
    [error |-> "none",
     payload |-> [sub |-> user.id, email |-> user.email, role |-> user.role,
                  organizationId |-> user.organizationId],
     user |-> [id |-> user.id, email |-> user.email, role |-> user.role,
               organizationId |-> user.organizationId]]

---------------------------------------------------------------------------
(* AuthService *)

\* faulty variant: the role is left to the column default
NewOrganizationUserRoleDefault == DefaultRole

\* role given to the user who registers together with a new organization
NewOrganizationUserRole == AdminRole

\* user.create: the database generates the id; role defaults to USER
CreateUser(email, passwordHash, role, organizationId) ==
    [id |-> UserId(userSeq + 1), email |-> email, passwordHash |-> passwordHash,
     role |-> role, organizationId |-> organizationId]

\* organization.create
CreateOrg(name) == [id |-> OrgId(orgSeq + 1), name |-> name]

\* history only: the password each registered email was registered with
Remember(email, password) ==
    [e \in DOMAIN registered \cup {email} |->
        IF e = email THEN password ELSE registered[e]]

\* AuthService.register in its version that accepts organizationName
register(email, password, organizationId, organizationName, salt) ==
    /\ req' = [op |-> "register", email |-> email, password |-> password,
               organizationId |-> organizationId,
               organizationName |-> organizationName]
    /\ IF FindUserByEmail(email) # Null
       THEN Throw("ConflictException", "User with this email already exists")
       ELSE IF Truthy(organizationId)
       THEN IF FindOrgById(organizationId) = Null
            THEN Throw("BadRequestException", "Organization not found")
            ELSE LET user == CreateUser(email, BcryptHash(password, salt),
                                        DefaultRole, organizationId)
                 IN /\ users' = users \cup {user}
                    /\ userSeq' = userSeq + 1
                    /\ res' = AuthResponse(SelectUser(user))
                    /\ registered' = Remember(email, password)
                    /\ UNCHANGED <<organizations, orgSeq>>
       ELSE IF Truthy(organizationName)
       THEN LET newOrganization == CreateOrg(organizationName)
                user == CreateUser(email, BcryptHash(password, salt),
                                   NewOrganizationUserRole, newOrganization.id)
            IN /\ orgSeq < MaxOrgs
               /\ organizations' = organizations \cup {newOrganization}
               /\ orgSeq' = orgSeq + 1
               /\ users' = users \cup {user}
               /\ userSeq' = userSeq + 1
               /\ res' = AuthResponse(SelectUser(user))
               /\ registered' = Remember(email, password)
       ELSE Throw("BadRequestException",
                  "Either organizationId or organizationName must be provided")

\* faulty variant: an unknown email is reported as such
loginLeaky(email, password) ==
    /\ req' = [op |-> "login", email |-> email, password |-> password]
    /\ LET user == FindUserByEmail(email)
       IN IF user = Null
          THEN Throw("UnauthorizedException", "User not found")
          ELSE IF ~BcryptCompare(password, user.passwordHash)
          THEN Throw("UnauthorizedException", "Invalid credentials")
          ELSE /\ res' = AuthResponse(user)
               /\ UNCHANGED <<store, registered>>

login(email, password) ==
    /\ req' = [op |-> "login", email |-> email, password |-> password]
    /\ LET user == FindUserByEmail(email)
       IN IF user = Null
          THEN Throw("UnauthorizedException", "Invalid credentials")
          ELSE IF ~BcryptCompare(password, user.passwordHash)
          THEN Throw("UnauthorizedException", "Invalid credentials")
          ELSE /\ res' = AuthResponse(user)
               /\ UNCHANGED <<store, registered>>

---------------------------------------------------------------------------
(* OrganizationsService *)

\* faulty variant: the users are counted before the creator is assigned
OrganizationResponseCountedEarly(organization, userCount) ==
    [error |-> "none", id |-> organization.id, name |-> organization.name,
     userCount |-> 0]

OrganizationResponse(organization, userCount) ==
    [error |-> "none", id |-> organization.id, name |-> organization.name,
     userCount |-> userCount]

createOrganization(name, createdByUserId) ==
    /\ req' = [op |-> "createOrganization", name |-> name,
               createdByUserId |-> createdByUserId]
    /\ IF FindFirstOrgByName(name) # Null
       THEN Throw("ConflictException", "Organization with this name already exists")
       ELSE IF Truthy(createdByUserId) /\ FindUserById(createdByUserId) = Null
       THEN Throw("NotFoundException", "Creator user not found")
       ELSE LET organization == CreateOrg(name)
                updated == IF Truthy(createdByUserId)
                           THEN {IF u.id = createdByUserId
                                 THEN [u EXCEPT !.role = AdminRole,
                                                !.organizationId = organization.id]
                                 ELSE u : u \in users}
                           ELSE users
            IN /\ orgSeq < MaxOrgs
               /\ organizations' = organizations \cup {organization}
               /\ orgSeq' = orgSeq + 1
               /\ users' = updated
               /\ UNCHANGED <<userSeq, registered>>
               /\ res' = OrganizationResponse(organization,
                            Cardinality({u \in updated :
                                            u.organizationId = organization.id}))

updateOrganization(id, name) ==
    /\ req' = [op |-> "updateOrganization", id |-> id, name |-> name]
    /\ LET organization == FindOrgById(id)
       IN IF organization = Null
          THEN Throw("NotFoundException", "Organization not found")
          ELSE IF /\ Truthy(name)
                  /\ name # organization.name
                  /\ FindFirstOrgByNameNotId(name, id) # Null
          THEN Throw("ConflictException", "Organization with this name already exists")
          ELSE LET updatedOrganization ==
                       IF name = Undefined THEN organization
                       ELSE [organization EXCEPT !.name = name]
               IN /\ organizations' =
                        (organizations \ {organization}) \cup {updatedOrganization}
                  /\ UNCHANGED <<users, userSeq, orgSeq, registered>>
                  /\ res' = OrganizationResponse(updatedOrganization,
                                                 CountUsers(organization.id))

\* faulty variant: the user count is not consulted before the delete
HasUsersUnchecked(id) == FALSE

\* the guard of deleteOrganization: userCount > 0
HasUsers(id) == CountUsers(id) > 0

deleteOrganization(id) ==
    /\ req' = [op |-> "deleteOrganization", id |-> id]
    /\ LET organization == FindOrgById(id)
       IN IF organization = Null
          THEN Throw("NotFoundException", "Organization not found")
          ELSE IF HasUsers(id)
          THEN Throw("ConflictException",
                     "Cannot delete organization with existing users. Please remove all users first.")
          ELSE /\ organizations' = organizations \ {organization}
               /\ UNCHANGED <<users, userSeq, orgSeq, registered>>
               /\ res' = [error |-> "none",
                          message |-> "Organization deleted successfully"]

---------------------------------------------------------------------------
(* JwtStrategy and JwtAuthGuard *)

JwtSecret == "JWT_SECRET"

Roles == {DefaultRole, AdminRole}

\* a bearer token: the claims the guard reads, the key that signed it and
\* whether its exp lies in the past when the request arrives
Tokens ==
    [sub : AllUserIds, role : Roles, key : {JwtSecret, "other key"},
     expired : BOOLEAN]

\* a request without an Authorization header carries no token
NoToken == Null

\* route metadata under the key 'roles': Null when @Roles is absent
RolesMeta(roles) == [roles |-> roles]

GetContacts == [name |-> "GET /contacts", handler |-> Null, class |-> Null]
CreateContact ==
    [name |-> "POST /contacts", handler |-> RolesMeta(<<"ADMIN">>), class |-> Null]
UserOrAdminRoute ==
    [name |-> "GET /user-or-admin", handler |-> RolesMeta(<<"ADMIN", "USER">>),
     class |-> Null]
AdminClassRoute ==
    [name |-> "GET /admin-class", handler |-> Null, class |-> RolesMeta(<<"ADMIN">>)]

Routes == {GetContacts, CreateContact, UserOrAdminRoute, AdminClassRoute}

\* faulty variant: ignoreExpiration: true
JwtVerifyIgnoreExpiration(token) ==
    /\ token # NoToken
    /\ token.key = JwtSecret

\* passport-jwt with secretOrKey: jwtSecret and ignoreExpiration: false
JwtVerify(token) ==
    /\ token # NoToken
    /\ token.key = JwtSecret
    /\ ~token.expired

\* JwtStrategy.validate: the user row named by payload.sub, or Null
validate(payload) ==
    LET user == FindUserById(payload.sub)
    IN IF user = Null THEN Null ELSE SelectUser(user)

\* reflector.getAllAndOverride('roles', [handler, class])
GetAllAndOverride(route) ==
    IF route.handler # Null THEN route.handler ELSE route.class

\* faulty variant: the role claim of the token is trusted
GuardRoleFromToken(user, token) == token.role

\* the role the guard compares with the required roles: request.user.role
GuardRole(user, token) == user.role

\* requiredRoles.some((role) => user.role === role)
HasRequiredRole(requiredRoles, role) ==
    \E i \in 1..Len(requiredRoles.roles) : requiredRoles.roles[i] = role

\* JwtAuthGuard.canActivate for an authenticated request
RolesAllow(route, role) ==
    LET requiredRoles == GetAllAndOverride(route)
    IN IF requiredRoles = Null THEN TRUE
       ELSE HasRequiredRole(requiredRoles, role)

\* a request to a route behind @UseGuards(JwtAuthGuard)
guardedRequest(token, route) ==
    /\ req' = [op |-> "request", token |-> token, route |-> route]
    /\ IF ~JwtVerify(token)
       THEN Throw("UnauthorizedException", "Unauthorized")
       ELSE LET user == validate(token)
            IN IF user = Null
               THEN Throw("UnauthorizedException", "User not found")
               ELSE IF ~RolesAllow(route, GuardRole(user, token))
               THEN Throw("ForbiddenException", "Forbidden resource")
               ELSE /\ res' = [error |-> "none", user |-> user]
                    /\ UNCHANGED <<store, registered>>

---------------------------------------------------------------------------

\* the requests the server works on at the same time
Procs == {"first", "second"}

\* no request in flight
Idle == [op |-> "idle", pc |-> "idle"]

Init ==
    /\ users = {}
    /\ organizations = {}
    /\ userSeq = 0
    /\ orgSeq = 0
    /\ req = [op |-> "none"]
    /\ res = [error |-> "none"]
    /\ registered = <<>>
    /\ calls = [p \in Procs |-> Idle]

OptionalOrgIds == AllOrgIds \cup {Undefined, ""}
OptionalNames == Names \cup {Undefined}
OptionalUserIds == AllUserIds \cup {Undefined, ""}

CreateOrganization ==
    \E name \in Names, createdByUserId \in OptionalUserIds :
        createOrganization(name, createdByUserId) /\ UNCHANGED calls

UpdateOrganization ==
    \E id \in AllOrgIds, name \in OptionalNames :
        updateOrganization(id, name) /\ UNCHANGED calls

DeleteOrganization ==
    \E id \in AllOrgIds : deleteOrganization(id) /\ UNCHANGED calls

(* The store: every register and organization request, one password *)

Register ==
    \E email \in Emails, organizationId \in OptionalOrgIds,
       organizationName \in OptionalNames :
        register(email, Pw(1, 1), organizationId, organizationName, "saltA")
        /\ UNCHANGED calls

Next ==
    \/ Register
    \/ CreateOrganization
    \/ UpdateOrganization
    \/ DeleteOrganization

Spec == Init /\ [][Next]_vars

(* Credentials: every password and salt, one organization name per path *)

RegisterAuth ==
    \E email \in Emails, password \in Passwords, salt \in Salts,
       organizationId \in {Undefined, OrgId(1)} :
        register(email, password, organizationId, "Acme", salt)
        /\ UNCHANGED calls

Promote ==
    \E createdByUserId \in AllUserIds :
        createOrganization("Beta", createdByUserId) /\ UNCHANGED calls

Login ==
    \E email \in Emails, password \in Passwords :
        login(email, password) /\ UNCHANGED calls

NextAuth ==
    \/ RegisterAuth
    \/ Promote
    \/ Login

SpecAuth == Init /\ [][NextAuth]_vars

(* Guarded routes: users of both roles, every token and route *)

RegisterGuard ==
    \E email \in Emails, organizationId \in {Undefined, OrgId(1)} :
        register(email, Pw(1, 1), organizationId, "Acme", "saltA")
        /\ UNCHANGED calls

GuardedRequest ==
    \E token \in Tokens \cup {NoToken}, route \in Routes :
        guardedRequest(token, route) /\ UNCHANGED calls

NextGuard ==
    \/ RegisterGuard
    \/ Promote
    \/ GuardedRequest

SpecGuard == Init /\ [][NextGuard]_vars

(* Interleaved requests.  Node runs one request until its next await; the
   awaits on the Prisma client are the points where another request's steps
   come in between.  Each action below is one database call of one request
   together with the code that follows it up to the next await. *)

\* The store rejects a User row whose organizationId names no Organization
\* row, and the delete of an Organization row that User rows name.  Integrity
\* of the relation is kept by the services' lookups before they write; the
\* store itself accepts the write.
StoreChecksOrganizationId == FALSE

\* user.create fails in the store: the email is the unique key that
\* findUnique({ where: { email } }) looks users up by
UserCreateRejected(user) ==
    \/ \E u \in users : u.email = user.email
    \/ StoreChecksOrganizationId
         /\ ~\E o \in organizations : o.id = user.organizationId

\* organization.delete fails in the store
OrganizationDeleteRejected(id) ==
    \/ ~\E o \in organizations : o.id = id
    \/ StoreChecksOrganizationId /\ CountUsers(id) > 0

InFlight(p, op, pc) == calls[p].op = op /\ calls[p].pc = pc
CanStart(p) == calls[p].pc \in {"idle", "done"}

Goto(p, call) == calls' = [calls EXCEPT ![p] = call]

\* the request ends with an exception: thrown by the service, or a
\* PrismaClientKnownRequestError that no handler catches
Fail(p, exception) ==
    /\ Goto(p, [calls[p] EXCEPT !.pc = "done", !.error = exception])
    /\ UNCHANGED <<store, registered>>

(* AuthService.register *)

StartRegister(p, email, organizationId, organizationName) ==
    /\ CanStart(p)
    /\ Goto(p, [op |-> "register", pc |-> "findUser", email |-> email,
                organizationId |-> organizationId,
                organizationName |-> organizationName,
                finalOrganizationId |-> Undefined, role |-> DefaultRole,
                error |-> "none"])
    /\ UNCHANGED <<store, req, res, registered>>

\* existingUser = await user.findUnique({ where: { email } })
registerFindUser(p) ==
    /\ InFlight(p, "register", "findUser")
    /\ UNCHANGED <<req, res>>
    /\ LET c == calls[p]
       IN IF FindUserByEmail(c.email) # Null
          THEN Fail(p, "ConflictException")
          ELSE IF Truthy(c.organizationId)
          THEN /\ Goto(p, [c EXCEPT !.pc = "findOrganization"])
               /\ UNCHANGED <<store, registered>>
          ELSE IF Truthy(c.organizationName)
          THEN /\ Goto(p, [c EXCEPT !.pc = "createOrganization"])
               /\ UNCHANGED <<store, registered>>
          ELSE Fail(p, "BadRequestException")

\* organization = await organization.findUnique({ where: { id } })
registerFindOrganization(p) ==
    /\ InFlight(p, "register", "findOrganization")
    /\ UNCHANGED <<req, res>>
    /\ LET c == calls[p]
       IN IF FindOrgById(c.organizationId) = Null
          THEN Fail(p, "BadRequestException")
          ELSE /\ Goto(p, [c EXCEPT !.pc = "createUser",
                                    !.finalOrganizationId = c.organizationId])
               /\ UNCHANGED <<store, registered>>

\* newOrganization = await organization.create({ data: { name } })
registerCreateOrganization(p) ==
    /\ InFlight(p, "register", "createOrganization")
    /\ orgSeq < MaxOrgs
    /\ LET c == calls[p]
           newOrganization == CreateOrg(c.organizationName)
       IN /\ organizations' = organizations \cup {newOrganization}
          /\ orgSeq' = orgSeq + 1
          /\ Goto(p, [c EXCEPT !.pc = "createUser",
                               !.finalOrganizationId = newOrganization.id,
                               !.role = NewOrganizationUserRole])
    /\ UNCHANGED <<users, userSeq, req, res, registered>>

\* user = await user.create({ data: { email, password, organizationId } })
registerCreateUser(p) ==
    /\ InFlight(p, "register", "createUser")
    /\ UNCHANGED <<req, res>>
    /\ LET c == calls[p]
           user == CreateUser(c.email, BcryptHash(Pw(1, 1), "saltA"), c.role,
                              c.finalOrganizationId)
       IN IF UserCreateRejected(user)
          THEN Fail(p, "PrismaClientKnownRequestError")
          ELSE /\ users' = users \cup {user}
               /\ userSeq' = userSeq + 1
               /\ registered' = Remember(c.email, Pw(1, 1))
               /\ Goto(p, [c EXCEPT !.pc = "done"])
               /\ UNCHANGED <<organizations, orgSeq>>

(* OrganizationsService.createOrganization *)

StartCreateOrganization(p, name, createdByUserId) ==
    /\ CanStart(p)
    /\ Goto(p, [op |-> "createOrganization", pc |-> "findName", name |-> name,
                createdByUserId |-> createdByUserId, id |-> Undefined,
                userCount |-> 0, error |-> "none"])
    /\ UNCHANGED <<store, req, res, registered>>

\* existingOrganization = await organization.findFirst({ where: { name } })
createOrganizationFindName(p) ==
    /\ InFlight(p, "createOrganization", "findName")
    /\ UNCHANGED <<req, res>>
    /\ LET c == calls[p]
       IN IF FindFirstOrgByName(c.name) # Null
          THEN Fail(p, "ConflictException")
          ELSE /\ Goto(p, [c EXCEPT !.pc = IF Truthy(c.createdByUserId)
                                           THEN "findCreator" ELSE "create"])
               /\ UNCHANGED <<store, registered>>

\* creator = await user.findUnique({ where: { id: createdByUserId } })
createOrganizationFindCreator(p) ==
    /\ InFlight(p, "createOrganization", "findCreator")
    /\ UNCHANGED <<req, res>>
    /\ LET c == calls[p]
       IN IF FindUserById(c.createdByUserId) = Null
          THEN Fail(p, "NotFoundException")
          ELSE /\ Goto(p, [c EXCEPT !.pc = "create"])
               /\ UNCHANGED <<store, registered>>

\* organization = await organization.create({ data: { name } })
createOrganizationCreate(p) ==
    /\ InFlight(p, "createOrganization", "create")
    /\ orgSeq < MaxOrgs
    /\ LET c == calls[p]
           organization == CreateOrg(c.name)
       IN /\ organizations' = organizations \cup {organization}
          /\ orgSeq' = orgSeq + 1
          /\ Goto(p, [c EXCEPT !.id = organization.id,
                               !.pc = IF Truthy(c.createdByUserId)
                                      THEN "updateUser" ELSE "count"])
    /\ UNCHANGED <<users, userSeq, req, res, registered>>

\* await user.update({ where: { id: createdByUserId }, data: { role, organizationId } })
createOrganizationUpdateUser(p) ==
    /\ InFlight(p, "createOrganization", "updateUser")
    /\ UNCHANGED <<req, res>>
    /\ LET c == calls[p]
           creator == FindUserById(c.createdByUserId)
       IN IF \/ creator = Null
             \/ StoreChecksOrganizationId
                  /\ ~\E o \in organizations : o.id = c.id
          THEN Fail(p, "PrismaClientKnownRequestError")
          ELSE /\ users' = (users \ {creator}) \cup
                      {[creator EXCEPT !.role = AdminRole,
                                       !.organizationId = c.id]}
               /\ Goto(p, [c EXCEPT !.pc = "count"])
               /\ UNCHANGED <<organizations, orgSeq, userSeq, registered>>

\* userCount = await user.count({ where: { organizationId } })
createOrganizationCount(p) ==
    /\ InFlight(p, "createOrganization", "count")
    /\ Goto(p, [calls[p] EXCEPT !.pc = "done",
                                !.userCount = CountUsers(calls[p].id)])
    /\ UNCHANGED <<store, req, res, registered>>

(* OrganizationsService.deleteOrganization *)

StartDeleteOrganization(p, id) ==
    /\ CanStart(p)
    /\ Goto(p, [op |-> "deleteOrganization", pc |-> "findOrganization",
                id |-> id, error |-> "none"])
    /\ UNCHANGED <<store, req, res, registered>>

\* organization = await organization.findUnique({ where: { id } })
deleteOrganizationFind(p) ==
    /\ InFlight(p, "deleteOrganization", "findOrganization")
    /\ UNCHANGED <<req, res>>
    /\ IF FindOrgById(calls[p].id) = Null
       THEN Fail(p, "NotFoundException")
       ELSE /\ Goto(p, [calls[p] EXCEPT !.pc = "count"])
            /\ UNCHANGED <<store, registered>>

\* userCount = await user.count({ where: { organizationId: id } })
deleteOrganizationCount(p) ==
    /\ InFlight(p, "deleteOrganization", "count")
    /\ UNCHANGED <<req, res>>
    /\ IF HasUsers(calls[p].id)
       THEN Fail(p, "ConflictException")
       ELSE /\ Goto(p, [calls[p] EXCEPT !.pc = "delete"])
            /\ UNCHANGED <<store, registered>>

\* await organization.delete({ where: { id } })
deleteOrganizationDelete(p) ==
    /\ InFlight(p, "deleteOrganization", "delete")
    /\ UNCHANGED <<req, res>>
    /\ IF OrganizationDeleteRejected(calls[p].id)
       THEN Fail(p, "PrismaClientKnownRequestError")
       ELSE /\ organizations' = {o \in organizations : o.id # calls[p].id}
            /\ Goto(p, [calls[p] EXCEPT !.pc = "done"])
            /\ UNCHANGED <<users, userSeq, orgSeq, registered>>

(* Two requests in flight: one email domain, one organization name *)

RegisterStarts ==
    \E p \in Procs, email \in Emails, organizationId \in {Undefined, OrgId(1)},
       organizationName \in {Undefined, "Acme"} :
        StartRegister(p, email, organizationId, organizationName)

RegisterFindsUser == \E p \in Procs : registerFindUser(p)
RegisterFindsOrganization == \E p \in Procs : registerFindOrganization(p)
RegisterCreatesOrganization == \E p \in Procs : registerCreateOrganization(p)
RegisterCreatesUser == \E p \in Procs : registerCreateUser(p)

CreateOrganizationStarts ==
    \E p \in Procs, createdByUserId \in {Undefined, UserId(1)} :
        StartCreateOrganization(p, "Acme", createdByUserId)

CreateOrganizationFindsName == \E p \in Procs : createOrganizationFindName(p)
CreateOrganizationFindsCreator ==
    \E p \in Procs : createOrganizationFindCreator(p)
CreateOrganizationCreates == \E p \in Procs : createOrganizationCreate(p)
CreateOrganizationUpdatesUser ==
    \E p \in Procs : createOrganizationUpdateUser(p)
CreateOrganizationCounts == \E p \in Procs : createOrganizationCount(p)

DeleteOrganizationStarts ==
    \E p \in Procs, id \in {OrgId(1), OrgId(2)} : StartDeleteOrganization(p, id)

DeleteOrganizationFinds == \E p \in Procs : deleteOrganizationFind(p)
DeleteOrganizationCounts == \E p \in Procs : deleteOrganizationCount(p)
DeleteOrganizationDeletes == \E p \in Procs : deleteOrganizationDelete(p)

NextInterleaved ==
    \/ RegisterStarts
    \/ RegisterFindsUser
    \/ RegisterFindsOrganization
    \/ RegisterCreatesOrganization
    \/ RegisterCreatesUser
    \/ CreateOrganizationStarts
    \/ CreateOrganizationFindsName
    \/ CreateOrganizationFindsCreator
    \/ CreateOrganizationCreates
    \/ CreateOrganizationUpdatesUser
    \/ CreateOrganizationCounts
    \/ DeleteOrganizationStarts
    \/ DeleteOrganizationFinds
    \/ DeleteOrganizationCounts
    \/ DeleteOrganizationDeletes

SpecInterleaved == Init /\ [][NextInterleaved]_vars

---------------------------------------------------------------------------
(* Properties *)

\* what a request supplies, in the words of the API: a field that is present
\* and not the empty string
Supplied(v) == v \notin {Undefined, ""}

EmailTaken(email) == \E u \in users : u.email = email
OrgStored(id) == \E o \in organizations : o.id = id

StoreUnchanged == users' = users /\ organizations' = organizations

\* C1: no two stored organizations have the same name.
C1_UniqueOrganizationNames ==
    \A o1, o2 \in organizations : o1.name = o2.name => o1.id = o2.id

\* C2: every stored user's organizationId is the id of a stored organization.
C2_UsersBelongToStoredOrganizations ==
    \A u \in users : OrgStored(u.organizationId)

\* C2 witness: a delete was refused because the organization has users.
C2_Witness ==
    /\ req.op = "deleteOrganization"
    /\ res.error = "ConflictException"
    /\ \E u \in users : u.organizationId = req.id

\* C3: register with an email of a stored user throws ConflictException
\* ('User with this email already exists') and adds no user and no
\* organization, whatever organizationId and organizationName are.
C3_DuplicateEmailRejected ==
    [][(req'.op = "register" /\ EmailTaken(req'.email)) =>
          /\ res' = [error |-> "ConflictException",
                     message |-> "User with this email already exists"]
          /\ StoreUnchanged]_vars

\* C3 witness: the rejected request supplied both organizationId (of a stored
\* organization) and organizationName.
C3_Witness ==
    /\ req.op = "register"
    /\ res.error = "ConflictException"
    /\ EmailTaken(req.email)
    /\ OrgStored(req.organizationId)
    /\ Supplied(req.organizationName)

\* C4: register with a fresh email and an organizationId that names no stored
\* organization throws BadRequestException ('Organization not found') and
\* leaves users and organizations unchanged.
C4_UnknownOrganizationRejected ==
    [][(/\ req'.op = "register"
        /\ ~EmailTaken(req'.email)
        /\ Supplied(req'.organizationId)
        /\ ~OrgStored(req'.organizationId)) =>
          /\ res' = [error |-> "BadRequestException",
                     message |-> "Organization not found"]
          /\ StoreUnchanged]_vars

\* C4 witness: the organizationId named an organization that was deleted.
C4_Witness ==
    /\ req.op = "register"
    /\ res.error = "BadRequestException"
    /\ res.message = "Organization not found"
    /\ ~EmailTaken(req.email)
    /\ \E n \in 1..orgSeq : req.organizationId = OrgId(n)

\* C5: register with a fresh email, an organizationName and no organizationId
\* creates exactly one organization, of that name, and exactly one user, of
\* that organization and of role ADMIN; the returned user and the token
\* payload carry role ADMIN and that organizationId.
C5_RegisterCreatesOrganizationAndAdmin ==
    [][(/\ req'.op = "register"
        /\ ~EmailTaken(req'.email)
        /\ Supplied(req'.organizationName)
        /\ ~Supplied(req'.organizationId)) =>
          /\ organizations \subseteq organizations'
          /\ users \subseteq users'
          /\ Cardinality(organizations' \ organizations) = 1
          /\ Cardinality(users' \ users) = 1
          /\ \A o \in organizations' \ organizations, u \in users' \ users :
                /\ o.name = req'.organizationName
                /\ ~OrgStored(o.id)
                /\ u.email = req'.email
                /\ u.organizationId = o.id
                /\ u.role = "ADMIN"
                /\ res'.error = "none"
                /\ res'.user.id = u.id
                /\ res'.user.role = "ADMIN"
                /\ res'.user.organizationId = o.id
                /\ res'.payload.sub = u.id
                /\ res'.payload.role = "ADMIN"
                /\ res'.payload.organizationId = o.id]_vars

\* C5 witness: such a register succeeded while another organization was stored.
C5_Witness ==
    /\ req.op = "register"
    /\ res.error = "none"
    /\ req.organizationId = Undefined
    /\ Supplied(req.organizationName)
    /\ Cardinality(organizations) > 1
    /\ \E u \in users : u.id = res.user.id /\ u.role = "ADMIN"

\* C6: register with a fresh email and neither organizationId nor
\* organizationName throws BadRequestException ('Either organizationId or
\* organizationName must be provided') and leaves users and organizations
\* unchanged.
C6_NoOrganizationRejected ==
    [][(/\ req'.op = "register"
        /\ ~EmailTaken(req'.email)
        /\ ~Supplied(req'.organizationId)
        /\ ~Supplied(req'.organizationName)) =>
          /\ res' = [error |-> "BadRequestException",
                     message |-> "Either organizationId or organizationName must be provided"]
          /\ StoreUnchanged]_vars

\* C6 witness: the request left both fields out, with users already stored.
C6_Witness ==
    /\ req.op = "register"
    /\ res.error = "BadRequestException"
    /\ req.organizationId = Undefined
    /\ req.organizationName = Undefined
    /\ users # {}
    /\ ~EmailTaken(req.email)

UserView(u) ==
    [id |-> u.id, email |-> u.email, role |-> u.role,
     organizationId |-> u.organizationId]

PayloadView(u) ==
    [sub |-> u.id, email |-> u.email, role |-> u.role,
     organizationId |-> u.organizationId]

\* the user and payload of a successful login are those of the stored user
LoginReturnsStoredUser ==
    res.error = "none" =>
        \E u \in users :
            /\ u.email = req.email
            /\ res.user = UserView(u)
            /\ res.payload = PayloadView(u)

\* C7: after a successful register(email, p), login(email, q) succeeds if and
\* only if q = p; on success the returned user and the token payload are the
\* stored user's id, email, role and organizationId at the time of the login.
C7_LoginIffSamePassword ==
    (req.op = "login" /\ req.email \in DOMAIN registered) =>
        /\ (res.error = "none") <=> (req.password = registered[req.email])
        /\ LoginReturnsStoredUser

\* What the code does instead: login succeeds if and only if q and p agree on
\* the bytes bcrypt reads, the first BcryptMaxBytes of each.
C7_LoginIffSameBcryptKey ==
    (req.op = "login" /\ req.email \in DOMAIN registered) =>
        /\ (res.error = "none") <=>
               (BcryptKey(req.password) = BcryptKey(registered[req.email]))
        /\ LoginReturnsStoredUser

\* a login with another password than the registered one succeeded
C7_OtherPasswordAccepted ==
    /\ req.op = "login"
    /\ res.error = "none"
    /\ req.email \in DOMAIN registered
    /\ req.password # registered[req.email]

C8_UnknownEmailRefused ==
    /\ req.op = "login"
    /\ res.error = "UnauthorizedException"
    /\ ~EmailTaken(req.email)
    /\ users # {}

ValidlySigned(token) == token # NoToken /\ token.key = "JWT_SECRET"
NotExpired(token) == ~token.expired
SubjectStored(token) == \E u \in users : u.id = token.sub

\* C9: the handler behind JwtAuthGuard runs only for a token that is validly
\* signed, not expired and whose sub is the id of a stored user; a valid token
\* whose user is not stored is refused with UnauthorizedException ('User not
\* found').
C9_HandlerOnlyForValidTokenOfStoredUser ==
    req.op = "request" =>
        /\ res.error = "none" =>
              /\ ValidlySigned(req.token)
              /\ NotExpired(req.token)
              /\ SubjectStored(req.token)
              /\ \E u \in users : u.id = req.token.sub /\ res.user = UserView(u)
        /\ (/\ ValidlySigned(req.token)
            /\ NotExpired(req.token)
            /\ ~SubjectStored(req.token)) =>
              res = [error |-> "UnauthorizedException", message |-> "User not found"]

\* C9 witness: a valid token of a user that is not stored was refused, while
\* other users are stored.
C9_Witness ==
    /\ req.op = "request"
    /\ res.error = "UnauthorizedException"
    /\ res.message = "User not found"
    /\ ValidlySigned(req.token)
    /\ users # {}

\* C9: the handler ran.
C9_HandlerRan ==
    /\ req.op = "request"
    /\ res.error = "none"

HasRolesMetadata(route) == route.handler # Null \/ route.class # Null

\* the roles required of a route: those of the handler, else those of the class
RequiredRoleSet(route) ==
    LET meta == IF route.handler # Null THEN route.handler ELSE route.class
    IN {meta.roles[i] : i \in 1..Len(meta.roles)}

Admitted == res.error = "none"

\* C10: for an authenticated request the guard admits a route without roles
\* metadata, and otherwise admits exactly the users whose role is one of the
\* required roles: POST /contacts only for ADMIN, GET /contacts for everyone.
C10_RolesDecideAdmission ==
    (/\ req.op = "request"
     /\ ValidlySigned(req.token)
     /\ NotExpired(req.token)
     /\ SubjectStored(req.token)) =>
        LET user == CHOOSE u \in users : u.id = req.token.sub
        IN /\ res.error \in {"none", "ForbiddenException"}
           /\ ~HasRolesMetadata(req.route) => Admitted
           /\ HasRolesMetadata(req.route) =>
                 (Admitted <=> user.role \in RequiredRoleSet(req.route))
           /\ req.route.name = "POST /contacts" =>
                 (Admitted <=> user.role = "ADMIN")
           /\ req.route.name = "GET /contacts" => Admitted

\* C10 witness: POST /contacts was refused to a stored user of role USER whose
\* token claims ADMIN.
C10_Witness ==
    /\ req.op = "request"
    /\ req.route.name = "POST /contacts"
    /\ res.error = "ForbiddenException"
    /\ req.token.role = "ADMIN"
    /\ \E u \in users : u.id = req.token.sub /\ u.role = "USER"

\* C10: POST /contacts was admitted for an ADMIN.
C10_AdminAdmitted ==
    /\ req.op = "request"
    /\ req.route.name = "POST /contacts"
    /\ res.error = "none"

NameTaken(name) == \E o \in organizations : o.name = name
UserStored(id) == \E u \in users : u.id = id

\* C11: createOrganization with a name that a stored organization already has
\* throws ConflictException ('Organization with this name already exists'),
\* creates no organization and changes no user, also when createdByUserId is
\* the id of a stored user.
C11_DuplicateNameRejected ==
    [][(req'.op = "createOrganization" /\ NameTaken(req'.name)) =>
          /\ res' = [error |-> "ConflictException",
                     message |-> "Organization with this name already exists"]
          /\ StoreUnchanged]_vars

\* C11 witness: the rejected request named a stored user as creator.
C11_Witness ==
    /\ req.op = "createOrganization"
    /\ res.error = "ConflictException"
    /\ NameTaken(req.name)
    /\ UserStored(req.createdByUserId)

\* C12: createOrganization with a fresh name and a createdByUserId that names
\* no stored user throws NotFoundException ('Creator user not found') and
\* creates no organization.
C12_UnknownCreatorRejected ==
    [][(/\ req'.op = "createOrganization"
        /\ ~NameTaken(req'.name)
        /\ Supplied(req'.createdByUserId)
        /\ ~UserStored(req'.createdByUserId)) =>
          /\ res' = [error |-> "NotFoundException",
                     message |-> "Creator user not found"]
          /\ StoreUnchanged]_vars

\* C12 witness: the creator was unknown while other users are stored.
C12_Witness ==
    /\ req.op = "createOrganization"
    /\ res.error = "NotFoundException"
    /\ ~NameTaken(req.name)
    /\ users # {}

\* C13: createOrganization with a fresh name and the id of a stored user as
\* createdByUserId creates the organization, leaves that user with role ADMIN
\* and the new organization's id, and returns userCount 1; without
\* createdByUserId it changes no user and returns userCount 0.
C13_CreatorBecomesAdmin ==
    [][(req'.op = "createOrganization" /\ ~NameTaken(req'.name)) =>
          /\ UserStored(req'.createdByUserId) =>
                /\ res'.error = "none"
                /\ res'.name = req'.name
                /\ ~OrgStored(res'.id)
                /\ organizations' =
                      organizations \cup {[id |-> res'.id, name |-> req'.name]}
                /\ \E u \in users :
                      /\ u.id = req'.createdByUserId
                      /\ users' = (users \ {u}) \cup
                            {[u EXCEPT !.role = "ADMIN",
                                       !.organizationId = res'.id]}
                /\ res'.userCount = 1
          /\ ~Supplied(req'.createdByUserId) =>
                /\ res'.error = "none"
                /\ res'.name = req'.name
                /\ ~OrgStored(res'.id)
                /\ organizations' =
                      organizations \cup {[id |-> res'.id, name |-> req'.name]}
                /\ users' = users
                /\ res'.userCount = 0]_vars

\* C13 witness: a stored user of role USER created an organization and is
\* now its ADMIN, while the other user stayed where it was.
C13_Witness ==
    /\ req.op = "createOrganization"
    /\ res.error = "none"
    /\ res.userCount = 1
    /\ \E u \in users :
          u.id = req.createdByUserId /\ u.role = "ADMIN"
          /\ u.organizationId = res.id
    /\ \E u \in users : u.id # req.createdByUserId /\ u.role = "USER"

\* C13: an organization was created without a creator while users are stored.
C13_NoCreator ==
    /\ req.op = "createOrganization"
    /\ res.error = "none"
    /\ req.createdByUserId = Undefined
    /\ res.userCount = 0
    /\ users # {}

\* C14: deleteOrganization(id) removes the organization only when no stored
\* user has organizationId = id; with such a user it throws ConflictException
\* and the organization and all users stay as they are; when id names no
\* organization it throws NotFoundException and nothing changes.
C14_DeleteOnlyWithoutUsers ==
    [][req'.op = "deleteOrganization" =>
          /\ users' = users
          /\ ~OrgStored(req'.id) =>
                /\ res'.error = "NotFoundException"
                /\ organizations' = organizations
          /\ (OrgStored(req'.id) /\ \E u \in users : u.organizationId = req'.id) =>
                /\ res'.error = "ConflictException"
                /\ organizations' = organizations
          /\ (OrgStored(req'.id) /\ ~\E u \in users : u.organizationId = req'.id) =>
                /\ res'.error = "none"
                /\ organizations' = {o \in organizations : o.id # req'.id}]_vars

\* C14 witness: an organization without users was deleted while another
\* organization with users stays.
C14_Witness ==
    /\ req.op = "deleteOrganization"
    /\ res.error = "none"
    /\ ~OrgStored(req.id)
    /\ users # {}

\* C14: a delete of an organization that was deleted before was refused.
C14_NotFound ==
    /\ req.op = "deleteOrganization"
    /\ res.error = "NotFoundException"
    /\ \E n \in 1..orgSeq : req.id = OrgId(n)

\* C15: updateOrganization(id, {name}) throws NotFoundException when id names
\* no organization; for every requested name it throws ConflictException and
\* leaves every organization unchanged when another organization has that
\* name; an update to the name the organization already has succeeds.
C15_RenameKeepsNamesApart ==
    [][(req'.op = "updateOrganization" /\ req'.name # Undefined) =>
          /\ ~OrgStored(req'.id) =>
                /\ res'.error = "NotFoundException"
                /\ StoreUnchanged
          /\ \A o \in organizations : o.id = req'.id =>
                /\ (/\ req'.name # o.name
                    /\ \E other \in organizations :
                          other.id # o.id /\ other.name = req'.name) =>
                      /\ res'.error = "ConflictException"
                      /\ StoreUnchanged
                /\ req'.name = o.name =>
                      /\ res'.error = "none"
                      /\ StoreUnchanged]_vars

\* What the code does: the same, for every requested name but the empty one.
C15_RenameKeepsNonEmptyNamesApart ==
    [][(req'.op = "updateOrganization" /\ req'.name # Undefined) =>
          /\ ~OrgStored(req'.id) =>
                /\ res'.error = "NotFoundException"
                /\ StoreUnchanged
          /\ \A o \in organizations : o.id = req'.id =>
                /\ (/\ req'.name # o.name
                    /\ req'.name # ""
                    /\ \E other \in organizations :
                          other.id # o.id /\ other.name = req'.name) =>
                      /\ res'.error = "ConflictException"
                      /\ StoreUnchanged
                /\ req'.name = o.name =>
                      /\ res'.error = "none"
                      /\ StoreUnchanged]_vars

\* an organization was renamed to the empty name another organization has
C15_EmptyNameShared ==
    /\ req.op = "updateOrganization"
    /\ req.name = ""
    /\ res.error = "none"
    /\ \E o \in organizations : o.id # req.id /\ o.name = ""

Done(p, op) == calls[p].op = op /\ calls[p].pc = "done"
Succeeded(p, op) == Done(p, op) /\ calls[p].error = "none"

\* C16: when the steps of deleteOrganization(id) interleave with the steps of
\* a register into the same organizationId, no stored user has an
\* organizationId that names a deleted organization: the user that a
\* register call with organizationId = id created still finds the
\* organization stored that a deleteOrganization(id) call names.
C16_RegisteredUserKeepsOrganization ==
    \A p, q \in Procs :
        (/\ Succeeded(p, "register")
         /\ calls[q].op = "deleteOrganization"
         /\ calls[q].id = calls[p].organizationId) =>
            \A u \in users :
                (/\ u.email = calls[p].email
                 /\ u.organizationId = calls[p].organizationId) =>
                    OrgStored(u.organizationId)

\* C17: two createOrganization calls with the same name whose steps
\* interleave do not both succeed: the organizations that two successful
\* calls with one name created are never stored together.
C17_OneCreateOrganizationWins ==
    \A p, q \in Procs :
        (/\ p # q
         /\ Succeeded(p, "createOrganization")
         /\ Succeeded(q, "createOrganization")
         /\ calls[p].name = calls[q].name) =>
            ~(OrgStored(calls[p].id) /\ OrgStored(calls[q].id))

\* C18: when two register calls with the same email and an organizationName
\* interleave and the store keeps emails unique, at most one user has that
\* email and the call that failed has left no organization it created.
C18_RegisterAllOrNothing ==
    \A p, q \in Procs :
        (/\ p # q
         /\ Done(p, "register")
         /\ calls[q].op = "register"
         /\ calls[p].email = calls[q].email
         /\ Truthy(calls[p].organizationName)
         /\ ~Truthy(calls[p].organizationId)
         /\ Truthy(calls[q].organizationName)
         /\ ~Truthy(calls[q].organizationId)) =>
            /\ Cardinality({u \in users : u.email = calls[p].email}) <= 1
            /\ calls[p].error # "none" =>
                  ~OrgStored(calls[p].finalOrganizationId)

\* the part of C18 that the unique email gives: one user per email
C18_OneUserPerEmail ==
    \A email \in Emails : Cardinality({u \in users : u.email = email}) <= 1

====
